---------------------------- MODULE Spec2Model ----------------------------
(***************************************************************************)
(* A model of rbxts-command: the ArgumentDescriptor (then / thenIf /       *)
(* compile / parseFrom), the ArgumentParser (get, shift, shiftIf, pop,     *)
(* join and their ...Any variants, describe) and the Commander (register,  *)
(* deregister, execute...).                                                *)
(*                                                                         *)
(* Arrays and Option cells are objects of the program: they live in heaps  *)
(* (arrays, cells) and are held by reference, so that sharing between two  *)
(* holders is visible in the model.  Source indices are 0-based, sequences *)
(* here are 1-based: element i of the source is element i + 1 here.        *)
(***************************************************************************)
EXTENDS Naturals, Sequences, FiniteSets

VARIABLES
    arrays,       \* heap of string arrays: arrays[ref] is the array's content
    cells,        \* heap of Option cells: cells[ref] is None or the value held
    steps,        \* ArgumentDescriptor.steps
    defaultArgs,  \* ArgumentDescriptor.defaultArgs, a reference into arrays
    results,      \* what the calls of compile returned, oldest first
    callerArgs,   \* the array handed to the ArgumentParser constructor (a reference)
    parserArgs,   \* ArgumentParser.args (a reference)
    last,         \* the last call of an ArgumentParser method and what it returned
    commands,     \* Commander.commands: name -> descriptor, for the names mapped
    defaulter,    \* Commander.defaulter: the defaults it fills in, or NoDefaults
    commandHook,  \* whether the Commander was constructed with a commandHook
    overridden,   \* whether canExecute is the override of a subclass
    running,      \* the executor calls that have not finished
    resolved,     \* the promises of runExecutor that resolved, their callback not yet run
    returned      \* the last call of a Commander method, the last executor call
                  \* to finish or the last callback run, and what came of it

descVars == <<steps, defaultArgs, results>>
argVars == <<callerArgs, parserArgs, last>>
cmdVars == <<commands, defaulter, commandHook, overridden, running, resolved, returned>>
vars == <<arrays, cells, descVars, argVars, cmdVars>>

-----------------------------------------------------------------------------
(* Bounds *)

MaxSteps == 2
MaxTokens == 2
MaxCompiles == 2
MaxRunning == 1

-----------------------------------------------------------------------------
(* Tokens, value parsers and Option cells *)

\* undefined where a string is expected (an absent array element), and where a
\* parsed value is expected (no value; an empty Option); parsed values are
\* pairs, so both compare with the values they stand in for.
undefined == "undefined"
None == <<>>

\* No object.
NoRef == 0

\* No call yet.
NoCall == [op |-> "none"]

Tokens == {"5", "red", "large"}
TokenSeqs == UNION {[1..n -> Tokens] : n \in 0..MaxTokens}

ParserNames == {"int", "color", "size", "any"}

\* Whether value parser p yields a value for the string.
Accepts(p, value) ==
    CASE p = "int" -> value = "5"
      [] p = "color" -> value = "red"
      [] p = "size" -> value = "large"
      [] OTHER -> value # undefined

\* parser.parse(value): the parsed value (which names its parser), or None.
ParserParse(p, value) == IF Accepts(p, value) THEN <<p, value>> ELSE None

\* Option.nones(n) on heap h: n new empty cells appended to the heap.
OptionNones(h, n) == h \o [i \in 1..n |-> None]

\* NewRefs handing out the first n cells of the heap again.
NewRefsReused(h, n) == [i \in 1..n |-> i]

\* The references of the n cells that Option.nones(n) adds to heap h.
NewRefs(h, n) == [i \in 1..n |-> Len(h) + i]

\* opt.set(v) on heap h.
OptionSet(h, opt, v) == [h EXCEPT ![opt] = v]
IsSome(h, opt) == h[opt] # None

-----------------------------------------------------------------------------
(* ArgumentDescriptor *)

One(p) == [single |-> TRUE, parsers |-> <<p>>]
Many(ps) == [single |-> FALSE, parsers |-> ps]

\* What then / thenIf are called with: a parser or an array of parsers.
ParsersInputs == {One("int"), Many(<<"color", "size">>)}

resolveParsers(parsers) == parsers.parsers

then(parsers, required) ==
    /\ Len(steps) < MaxSteps
    /\ steps' = Append(steps, [parsers |-> resolveParsers(parsers), required |-> required])
    /\ UNCHANGED <<arrays, cells, defaultArgs, results, argVars, cmdVars>>

\* The step that thenIf pushes.
thenIfStep(condition, parsers, required) ==
    IF condition
    THEN [parsers |-> resolveParsers(parsers), required |-> required]
    ELSE [parsers |-> <<>>, required |-> FALSE]

thenIf(condition, parsers, required) ==
    /\ Len(steps) < MaxSteps
    /\ steps' = Append(steps, thenIfStep(condition, parsers, required))
    /\ UNCHANGED <<arrays, cells, defaultArgs, results, argVars, cmdVars>>

\* args[index] of the source: the element, or undefined past the end of the array.
ArrayGet(array, index) == IF index + 1 \in DOMAIN array THEN array[index + 1] ELSE undefined

\* atEnd without the test for an absent argument.
atEndIgnoresArgument(theSteps, args, stepIndex, argumentIndex, options) ==
    \/ stepIndex >= Len(theSteps)
    \/ stepIndex >= Len(options)

\* The guard of parseFrom: no argument, no step or no option at the cursors.
atEnd(theSteps, args, stepIndex, argumentIndex, options) ==
    \/ ArrayGet(args, argumentIndex) = undefined
    \/ stepIndex >= Len(theSteps)
    \/ stepIndex >= Len(options)

\* onSome with the step tried again on the next argument.
onSomeKeepsStep(stepIndex, argumentIndex) ==
    [stop |-> FALSE, stepIndex |-> stepIndex, argumentIndex |-> argumentIndex + 1]

\* onSome with the argument cursor left where it is.
onSomeKeepsArgument(stepIndex, argumentIndex) ==
    [stop |-> FALSE, stepIndex |-> stepIndex + 1, argumentIndex |-> argumentIndex]

\* Where parseFrom goes after a parser of the step filled the option.
onSome(stepIndex, argumentIndex) ==
    [stop |-> FALSE, stepIndex |-> stepIndex + 1, argumentIndex |-> argumentIndex + 1]

\* onMiss with the argument cursor advanced on an optional miss.
onMissSkipsArgument(required, stepIndex, argumentIndex) ==
    IF required
    THEN [stop |-> TRUE, stepIndex |-> stepIndex, argumentIndex |-> argumentIndex]
    ELSE [stop |-> FALSE, stepIndex |-> stepIndex + 1, argumentIndex |-> argumentIndex + 1]

\* onMiss with a required step treated as an optional one.
onMissNeverStops(required, stepIndex, argumentIndex) ==
    [stop |-> FALSE, stepIndex |-> stepIndex + 1, argumentIndex |-> argumentIndex]

\* Where parseFrom goes after no parser of the step filled the option.
onMiss(required, stepIndex, argumentIndex) ==
    IF required
    THEN [stop |-> TRUE, stepIndex |-> stepIndex, argumentIndex |-> argumentIndex]
    ELSE [stop |-> FALSE, stepIndex |-> stepIndex + 1, argumentIndex |-> argumentIndex]

\* The run of one compile: the cell heap, the parser calls made
\* (<<stepIndex, parser, argumentIndex>>) and the invocations of parseFrom
\* (<<stepIndex, argumentIndex>>), in order.
RECURSIVE parseFrom(_, _, _, _, _, _)
RECURSIVE parseLoop(_, _, _, _, _, _, _)

\* The for loop of parseFrom, from the parser at i (1-based), and what follows it.
parseLoop(theSteps, args, stepIndex, argumentIndex, options, run, i) ==
    LET value == ArrayGet(args, argumentIndex)
        step == theSteps[stepIndex + 1]
        opt == options[stepIndex + 1]
    IN IF i > Len(step.parsers)
       THEN LET to == onMiss(step.required, stepIndex, argumentIndex)
            IN IF to.stop
               THEN run
               ELSE parseFrom(theSteps, args, to.stepIndex, to.argumentIndex, options, run)
       ELSE LET parser == step.parsers[i]
                set == [run EXCEPT
                          !.cells = OptionSet(run.cells, opt, ParserParse(parser, value)),
                          !.calls = Append(run.calls, <<stepIndex, parser, argumentIndex>>)]
                to == onSome(stepIndex, argumentIndex)
            IN IF IsSome(set.cells, opt)
               THEN parseFrom(theSteps, args, to.stepIndex, to.argumentIndex, options, set)
               ELSE parseLoop(theSteps, args, stepIndex, argumentIndex, options, set, i + 1)

parseFrom(theSteps, args, stepIndex, argumentIndex, options, run) ==
    LET entered == [run EXCEPT !.visits = Append(run.visits, <<stepIndex, argumentIndex>>)]
    IN IF atEnd(theSteps, args, stepIndex, argumentIndex, options)
       THEN entered
       ELSE parseLoop(theSteps, args, stepIndex, argumentIndex, options, entered, 1)

\* optionCount with one option per argument.
optionCountOfArgs(theSteps, args) == Len(args)

\* The number of options compile allocates: this.steps.size().
optionCount(theSteps, args) == Len(theSteps)

\* compile(args) of a descriptor with steps theSteps, on cell heap heap: the
\* options returned and the run that filled them.
compileRun(theSteps, heap, args) ==
    LET n == optionCount(theSteps, args)
        options == NewRefs(heap, n)
        run == parseFrom(theSteps, args, 0, 0, options,
                         [cells |-> OptionNones(heap, n),
                          calls |-> <<>>, visits |-> <<>>])
    IN [args |-> args, options |-> options, cells |-> run.cells,
        calls |-> run.calls, visits |-> run.visits]

\* compile(), with the args defaulted to defaultArgs.
compile ==
    /\ Len(results) < MaxCompiles
    /\ LET c == compileRun(steps, cells, arrays[defaultArgs])
       IN /\ cells' = c.cells
          /\ results' = Append(results, [args |-> c.args, options |-> c.options,
                                         calls |-> c.calls, visits |-> c.visits])
    /\ UNCHANGED <<arrays, steps, defaultArgs, argVars, cmdVars>>

\* No Commander.
NoCommander ==
    /\ commands = <<>>
    /\ defaulter = [set |-> FALSE]
    /\ commandHook = FALSE
    /\ overridden = FALSE
    /\ running = {}
    /\ resolved = {}
    /\ returned = [op |-> "none"]

\* new ArgumentDescriptor(defaultArgs), and no ArgumentParser.
InitCompile ==
    /\ \E a \in TokenSeqs : arrays = <<a>>
    /\ defaultArgs = 1
    /\ cells = <<>>
    /\ steps = <<>>
    /\ results = <<>>
    /\ callerArgs = NoRef
    /\ parserArgs = NoRef
    /\ last = NoCall
    /\ NoCommander

NextCompile ==
    \/ \E p \in ParsersInputs, r \in BOOLEAN : then(p, r)
    \/ \E c \in BOOLEAN, p \in ParsersInputs, r \in BOOLEAN : thenIf(c, p, r)
    \/ compile

SpecCompile == InitCompile /\ [][NextCompile]_vars

-----------------------------------------------------------------------------
(* ArgumentParser *)

\* The parsers a method is called with.
ParserLists == {<<>>, <<"int">>, <<"color", "size">>, <<"size", "any">>,
                <<"int", "size", "any">>}

Separators == {"", ","}

\* The place in the heap of an array that nothing refers to any more.
Freed == <<"(freed)">>

\* A new array on array heap heap, at the first place free: the heap and the
\* reference to the array.
NewArray(heap, array) ==
    LET free == {i \in 1..Len(heap) : heap[i] = Freed}
    IN IF free = {}
       THEN [arrays |-> Append(heap, array), args |-> Len(heap) + 1]
       ELSE LET i == CHOOSE f \in free : \A g \in free : f <= g
            IN [arrays |-> [heap EXCEPT ![i] = array], args |-> i]

\* ArgumentParserNew with the array given kept as the parser's own.
ArgumentParserShared(heap, given) == [arrays |-> heap, args |-> given]

\* new ArgumentParser(args) on array heap heap: the heap with the parser's own
\* array added, empty or a copy of the one given, and the reference to it.
ArgumentParserNew(heap, given) ==
    IF given = NoRef \/ heap[given] = <<>>
    THEN NewArray(heap, <<>>)
    ELSE NewArray(heap, heap[given])

\* parse with the result of the last parser that yields one, every parser called.
RECURSIVE parseLastFrom(_, _, _, _)
parseLastFrom(value, parsers, i, found) ==
    IF i > Len(parsers)
    THEN found
    ELSE LET result == ParserParse(parsers[i], value)
         IN parseLastFrom(value, parsers, i + 1,
                          [result |-> IF result # None THEN result ELSE found.result,
                           calls |-> Append(found.calls, parsers[i])])

parseLast(value, parsers) ==
    IF value = undefined
    THEN [result |-> None, calls |-> <<>>]
    ELSE parseLastFrom(value, parsers, 1, [result |-> None, calls |-> <<>>])

\* The for loop of parse from the parser at i (1-based): the result and the
\* parsers called.
RECURSIVE parseFirstFrom(_, _, _, _)
parseFirstFrom(value, parsers, i, calls) ==
    IF i > Len(parsers)
    THEN [result |-> None, calls |-> calls]
    ELSE LET result == ParserParse(parsers[i], value)
         IN IF result # None
            THEN [result |-> result, calls |-> Append(calls, parsers[i])]
            ELSE parseFirstFrom(value, parsers, i + 1, Append(calls, parsers[i]))

\* parse(value, ...parsers).
parse(value, parsers) ==
    IF value = undefined
    THEN [result |-> None, calls |-> <<>>]
    ELSE parseFirstFrom(value, parsers, 1, <<>>)

\* breaks without leaving the loop.
neverBreaks(option) == FALSE

\* Whether the for loop of parseAny ends after this option.
breaks(option) == option # None

\* The for loop of parseAny from the parser at i (1-based): the options and the
\* parsers called.
RECURSIVE parseAnyFrom(_, _, _, _)
parseAnyFrom(value, parsers, i, any) ==
    IF i > Len(parsers)
    THEN any
    ELSE LET result == ParserParse(parsers[i], value)
             set == [options |-> IF result # None
                                 THEN [any.options EXCEPT ![i] = result]
                                 ELSE any.options,
                     calls |-> Append(any.calls, parsers[i])]
         IN IF breaks(set.options[i])
            THEN set
            ELSE parseAnyFrom(value, parsers, i + 1, set)

\* parseAny(value, ...parsers): the Options hold their values here, they are
\* new with every call and held by the caller alone.
parseAny(value, parsers) ==
    LET nones == [options |-> [i \in 1..Len(parsers) |-> None], calls |-> <<>>]
    IN IF value = undefined THEN nones ELSE parseAnyFrom(value, parsers, 1, nones)

\* array.join(separator).
RECURSIVE ArrayJoin(_, _)
ArrayJoin(array, separator) ==
    IF array = <<>> THEN ""
    ELSE IF Len(array) = 1 THEN array[1]
    ELSE array[1] \o separator \o ArrayJoin(Tail(array), separator)

\* ArrayRemove taking the last element whatever the index.
ArrayRemoveLast(array, index) == SubSeq(array, 1, Len(array) - 1)

\* array.remove(index).
ArrayRemove(array, index) ==
    [i \in 1..(Len(array) - 1) |-> IF i <= index THEN array[i] ELSE array[i + 1]]

\* array.shift() and array.pop(): the array they leave.
ArrayShifted(array) == IF array = <<>> THEN array ELSE Tail(array)
ArrayPopped(array) == IF array = <<>> THEN array ELSE SubSeq(array, 1, Len(array) - 1)

Buffer == arrays[parserArgs]

\* What a method returned: through parse (a value or None) or through parseAny
\* (the tuple of Options).
Returned(op, value, parsers, p) ==
    [op |-> op, value |-> value, parsers |-> parsers, any |-> FALSE,
     result |-> p.result, options |-> <<>>, calls |-> p.calls]
ReturnedAny(op, value, parsers, p) ==
    [op |-> op, value |-> value, parsers |-> parsers, any |-> TRUE,
     result |-> None, options |-> p.options, calls |-> p.calls]

get(index, parsers) ==
    /\ last' = Returned("get", ArrayGet(Buffer, index), parsers,
                        parse(ArrayGet(Buffer, index), parsers))
    /\ UNCHANGED <<arrays, cells, descVars, callerArgs, parserArgs, cmdVars>>

getAny(index, parsers) ==
    /\ last' = ReturnedAny("getAny", ArrayGet(Buffer, index), parsers,
                           parseAny(ArrayGet(Buffer, index), parsers))
    /\ UNCHANGED <<arrays, cells, descVars, callerArgs, parserArgs, cmdVars>>

shift(parsers) ==
    /\ arrays' = [arrays EXCEPT ![parserArgs] = ArrayShifted(@)]
    /\ last' = Returned("shift", ArrayGet(Buffer, 0), parsers,
                        parse(ArrayGet(Buffer, 0), parsers))
    /\ UNCHANGED <<cells, descVars, callerArgs, parserArgs, cmdVars>>

shiftAny(parsers) ==
    /\ arrays' = [arrays EXCEPT ![parserArgs] = ArrayShifted(@)]
    /\ last' = ReturnedAny("shiftAny", ArrayGet(Buffer, 0), parsers,
                           parseAny(ArrayGet(Buffer, 0), parsers))
    /\ UNCHANGED <<cells, descVars, callerArgs, parserArgs, cmdVars>>

shiftIf(parsers) ==
    LET p == parse(ArrayGet(Buffer, 0), parsers)
    IN /\ arrays' = IF p.result # None
                    THEN [arrays EXCEPT ![parserArgs] = ArrayRemove(@, 0)]
                    ELSE arrays
       /\ last' = Returned("shiftIf", ArrayGet(Buffer, 0), parsers, p)
       /\ UNCHANGED <<cells, descVars, callerArgs, parserArgs, cmdVars>>

shiftIfAny(parsers) ==
    LET p == parseAny(ArrayGet(Buffer, 0), parsers)
    IN /\ arrays' = IF \E i \in 1..Len(p.options) : p.options[i] # None
                    THEN [arrays EXCEPT ![parserArgs] = ArrayRemove(@, 0)]
                    ELSE arrays
       /\ last' = ReturnedAny("shiftIfAny", ArrayGet(Buffer, 0), parsers, p)
       /\ UNCHANGED <<cells, descVars, callerArgs, parserArgs, cmdVars>>

pop(parsers) ==
    /\ arrays' = [arrays EXCEPT ![parserArgs] = ArrayPopped(@)]
    /\ last' = Returned("pop", ArrayGet(Buffer, Len(Buffer) - 1), parsers,
                        parse(ArrayGet(Buffer, Len(Buffer) - 1), parsers))
    /\ UNCHANGED <<cells, descVars, callerArgs, parserArgs, cmdVars>>

popAny(parsers) ==
    /\ arrays' = [arrays EXCEPT ![parserArgs] = ArrayPopped(@)]
    /\ last' = ReturnedAny("popAny", ArrayGet(Buffer, Len(Buffer) - 1), parsers,
                           parseAny(ArrayGet(Buffer, Len(Buffer) - 1), parsers))
    /\ UNCHANGED <<cells, descVars, callerArgs, parserArgs, cmdVars>>

join(parser, separator) ==
    /\ last' = Returned("join", ArrayJoin(Buffer, separator), <<parser>>,
                        parse(ArrayJoin(Buffer, separator), <<parser>>))
    /\ UNCHANGED <<arrays, cells, descVars, callerArgs, parserArgs, cmdVars>>

joinAny(parsers, seperator) ==
    /\ last' = ReturnedAny("joinAny", ArrayJoin(Buffer, seperator), parsers,
                           parseAny(ArrayJoin(Buffer, seperator), parsers))
    /\ UNCHANGED <<arrays, cells, descVars, callerArgs, parserArgs, cmdVars>>

\* describe(): a new ArgumentDescriptor over this.args, the array itself.
describe ==
    /\ defaultArgs' = parserArgs
    /\ steps' = <<>>
    /\ results' = <<>>
    /\ last' = [op |-> "describe"]
    /\ UNCHANGED <<arrays, cells, callerArgs, parserArgs, cmdVars>>

\* new ArgumentParser(args) over an array of the caller's, and no descriptor.
InitArgs ==
    /\ \E a \in TokenSeqs :
         LET new == ArgumentParserNew(<<a>>, 1)
         IN arrays = new.arrays /\ parserArgs = new.args
    /\ callerArgs = 1
    /\ last = NoCall
    /\ defaultArgs = NoRef
    /\ cells = <<>>
    /\ steps = <<>>
    /\ results = <<>>
    /\ NoCommander

NextArgs ==
    \/ \E i \in 0..MaxTokens, ps \in ParserLists : get(i, ps)
    \/ \E i \in 0..MaxTokens, ps \in ParserLists : getAny(i, ps)
    \/ \E ps \in ParserLists : shift(ps)
    \/ \E ps \in ParserLists : shiftAny(ps)
    \/ \E ps \in ParserLists : shiftIf(ps)
    \/ \E ps \in ParserLists : shiftIfAny(ps)
    \/ \E ps \in ParserLists : pop(ps)
    \/ \E ps \in ParserLists : popAny(ps)
    \/ \E p \in ParserNames, sep \in Separators : join(p, sep)
    \/ \E ps \in ParserLists, sep \in Separators : joinAny(ps, sep)
    \/ describe

SpecArgs == InitArgs /\ [][NextArgs]_vars

-----------------------------------------------------------------------------
(* Commander *)

EXECUTED == 0
NOT_FOUND == 1
NO_PERMISSION == 2

Senders == {"admin", "guest"}

Config(identifier, hasAliases, aliases) ==
    [identifier |-> identifier, hasAliases |-> hasAliases, aliases |-> aliases]

Executor(kind, name) == [kind |-> kind, name |-> name]

Hurt == Config("hurt", TRUE, <<"dmg">>)
Dmg == Config("dmg", FALSE, <<>>)

\* The command configs the methods are called with, the names they are called
\* with, what registerCommand is called with and what setDefaults is called with.
Configs == {Hurt, Dmg}
Names == {"hurt", "dmg"}
Registrations ==
    {<<Hurt, Executor("function", "hurt")>>, <<Dmg, Executor("object", "dmg")>>}
Defaults == {Config("command", TRUE, <<"hurt">>)}

\* What an executor call comes to: it returns nothing, returns false or throws.
ExecutorResults == {"void", "false", "throws"}

\* The arrays of arguments the callers of execute... hold.
CallerArrays == <<<<"5", "red">>>>

\* undefined where a descriptor is expected.
NoDescriptor == [config |-> Config(undefined, FALSE, <<>>), executor |-> Executor(undefined, undefined)]
NoDefaults == [set |-> FALSE, defaults |-> Config("", FALSE, <<>>)]

\* Map.get, Map.set and Map.delete.
MapGet(map, key) == IF key \in DOMAIN map THEN map[key] ELSE NoDescriptor
MapSetIfAbsent(map, key, value) ==
    [k \in DOMAIN map \cup {key} |-> IF k \in DOMAIN map THEN map[k] ELSE value]
MapSet(map, key, value) ==
    [k \in DOMAIN map \cup {key} |-> IF k = key THEN value ELSE map[k]]
MapDeleteAll(map, key) == <<>>
MapDelete(map, key) == [k \in DOMAIN map \ {key} |-> map[k]]

\* SetEach with no alias set.
SetEachSkipped(map, aliases, descriptor) == map

\* aliases.forEach((a) => this.commands.set(a, descriptor)).
RECURSIVE SetEach(_, _, _)
SetEach(map, aliases, descriptor) ==
    IF aliases = <<>>
    THEN map
    ELSE SetEach(MapSet(map, Head(aliases), descriptor), Tail(aliases), descriptor)

\* DeleteEach with no alias deleted.
DeleteEachSkipped(map, aliases) == map

\* aliases.forEach((a) => this.commands.delete(a)).
RECURSIVE DeleteEach(_, _)
DeleteEach(map, aliases) ==
    IF aliases = <<>>
    THEN map
    ELSE DeleteEach(MapDelete(map, Head(aliases)), Tail(aliases))

\* The defaulter: the config with the fields it lacks taken from the defaults.
Defaulted(config) ==
    IF defaulter.set /\ ~config.hasAliases
    THEN [config EXCEPT !.hasAliases = defaulter.defaults.hasAliases,
                        !.aliases = defaulter.defaults.aliases]
    ELSE config

setDefaults(config) ==
    /\ defaulter' = [set |-> TRUE, defaults |-> config]
    /\ returned' = [op |-> "setDefaults"]
    /\ UNCHANGED <<arrays, cells, descVars, argVars, commands, commandHook, overridden, running, resolved>>

\* The names registerCommand maps and deregisterCommand deletes.
aliasesOf(config) == IF config.hasAliases THEN config.aliases ELSE <<>>

registerCommand(config, executor) ==
    LET descriptor == [config |-> Defaulted(config), executor |-> executor]
    IN /\ commands' = SetEach(MapSet(commands, config.identifier, descriptor),
                              aliasesOf(config), descriptor)
       /\ returned' = [op |-> "registerCommand", config |-> config, executor |-> executor]
       /\ UNCHANGED <<arrays, cells, descVars, argVars, defaulter, commandHook, overridden, running, resolved>>

deregisterCommand(config) ==
    LET descriptor == MapGet(commands, config.identifier)
    IN /\ commands' = IF descriptor = NoDescriptor
                      THEN commands
                      ELSE DeleteEach(MapDelete(commands, config.identifier), aliasesOf(config))
       /\ returned' = [op |-> "deregisterCommand", config |-> config,
                       result |-> descriptor # NoDescriptor]
       /\ UNCHANGED <<arrays, cells, descVars, argVars, defaulter, commandHook, overridden, running, resolved>>

getDescriptor(name) == MapGet(commands, name)

\* canExecute: true, unless a subclass overrides it; the override here lets
\* guests execute the command "dmg" alone.
canExecute(sender, command) ==
    IF overridden
    THEN sender = "admin" \/ command.config.identifier = "dmg"
    ELSE TRUE

\* execute with no refusal.
refusedNever(sender, command) == FALSE

\* if (!this.canExecute(sender, command)): execute returns NO_PERMISSION.
refused(sender, command) == ~canExecute(sender, command)

\* The call of the executor that execute makes: the ExecutorArgs and the
\* executor called.
ExecutorCall(command, sender, argsParser, usedAlias) ==
    [command |-> command, executor |-> command.executor,
     sender |-> sender, args |-> argsParser, usedAlias |-> usedAlias]

\* execute(sender, command, args, usedAlias), called by method op which found
\* the command under name: what it returns, and the executor call it starts.
execute(op, name, sender, command, args, usedAlias) ==
    IF refused(sender, command)
    THEN /\ returned' = [op |-> op, sender |-> sender, name |-> name, args |-> args,
                         found |-> TRUE, checked |-> TRUE, calls |-> {},
                         result |-> NO_PERMISSION]
         /\ UNCHANGED <<arrays, running>>
    ELSE LET new == ArgumentParserNew(arrays, args)
             call == ExecutorCall(command, sender, new.args, usedAlias)
         IN /\ arrays' = new.arrays
            /\ running' = running \cup {call}
            /\ returned' = [op |-> op, sender |-> sender, name |-> name, args |-> args,
                            found |-> TRUE, checked |-> TRUE, calls |-> {call},
                            result |-> EXECUTED]

\* The return of a method that found no descriptor.
notFound(op, name, sender, args) ==
    /\ returned' = [op |-> op, sender |-> sender, name |-> name, args |-> args,
                    found |-> FALSE, checked |-> FALSE, calls |-> {},
                    result |-> NOT_FOUND]
    /\ UNCHANGED <<arrays, running>>

\* The executor calls whose ArgumentParser is still referenced: by the call, or
\* by the callback that execute chained to the promise of runExecutor.
InFlight == running \cup {p.call : p \in resolved}

executeConfig(sender, config, args) ==
    /\ Cardinality(InFlight) < MaxRunning
    /\ LET descriptor == MapGet(commands, config.identifier)
       IN IF descriptor = NoDescriptor
          THEN notFound("executeConfig", config.identifier, sender, args)
          ELSE execute("executeConfig", config.identifier, sender, descriptor, args,
                       config.identifier)
    /\ UNCHANGED <<cells, descVars, argVars, commands, defaulter, commandHook, overridden, resolved>>

executeDescriptor(sender, descriptor, args) ==
    /\ Cardinality(InFlight) < MaxRunning
    /\ execute("executeDescriptor", descriptor.config.identifier, sender, descriptor, args,
               descriptor.config.identifier)
    /\ UNCHANGED <<cells, descVars, argVars, commands, defaulter, commandHook, overridden, resolved>>

executeName(sender, command, args) ==
    /\ Cardinality(InFlight) < MaxRunning
    /\ LET descriptor == MapGet(commands, command)
       IN IF descriptor = NoDescriptor
          THEN notFound("executeName", command, sender, args)
          ELSE execute("executeName", command, sender, descriptor, args, command)
    /\ UNCHANGED <<cells, descVars, argVars, commands, defaulter, commandHook, overridden, resolved>>

\* runExecutor with success = true whatever the executor returned.
runExecutorAlwaysTrue(executor, result) ==
    IF result = "throws"
    THEN [settled |-> "rejected", value |-> FALSE]
    ELSE [settled |-> "resolved", value |-> TRUE]

\* runExecutor, from the return of the executor on: how its promise settles.
runExecutor(executor, result) ==
    IF result = "throws"
    THEN [settled |-> "rejected", value |-> FALSE]
    ELSE [settled |-> "resolved", value |-> result # "false"]

\* An executor call finishes, by a return or by a throw, and the promise of
\* runExecutor settles; the callback that execute chained to it waits for a
\* promise that resolved, and is dropped with one that was rejected.
finish(call, result) ==
    LET promise == runExecutor(call.executor, result)
    IN /\ call \in running
       /\ running' = running \ {call}
       /\ IF promise.settled = "resolved"
          THEN /\ resolved' = resolved \cup {[call |-> call, res |-> promise.value]}
               /\ arrays' = arrays
          ELSE /\ resolved' = resolved
               /\ arrays' = [arrays EXCEPT ![call.args] = Freed]
       /\ returned' = [op |-> "finished", call |-> call, result |-> result,
                       promise |-> promise]
       /\ UNCHANGED <<cells, descVars, argVars, commands, defaulter, commandHook, overridden>>

\* The callback of execute, (res) => { if (this.commandHook) ... }, run with
\* the value of a promise that resolved: it calls the commandHook, if any.
onResolved(p) ==
    /\ p \in resolved
    /\ resolved' = resolved \ {p}
    /\ arrays' = [arrays EXCEPT ![p.call.args] = Freed]
    /\ returned' = [op |-> "onResolved", call |-> p.call, res |-> p.res,
                    hook |-> IF commandHook
                             THEN <<[command |-> p.call.command,
                                     commandResult |-> p.res,
                                     executorArgs |-> <<p.call.sender, p.call.args,
                                                        p.call.usedAlias>>]>>
                             ELSE <<>>]
    /\ UNCHANGED <<cells, descVars, argVars, commands, defaulter, commandHook, overridden, running>>

\* The descriptors executeDescriptor is called with: the mapped ones, and ones
\* the Commander has no knowledge of.
Descriptors ==
    {commands[n] : n \in DOMAIN commands}
      \cup {[config |-> Dmg, executor |-> Executor("function", "hurt")]}

\* new Commander(commandHook?), of Commander or of a subclass; no
\* ArgumentDescriptor and no ArgumentParser but those of the executor calls.
InitCommander ==
    /\ commands = <<>>
    /\ defaulter = NoDefaults
    /\ commandHook \in BOOLEAN
    /\ overridden \in BOOLEAN
    /\ running = {}
    /\ resolved = {}
    /\ returned = [op |-> "none"]
    /\ arrays = CallerArrays
    /\ cells = <<>>
    /\ steps = <<>>
    /\ defaultArgs = NoRef
    /\ results = <<>>
    /\ callerArgs = NoRef
    /\ parserArgs = NoRef
    /\ last = NoCall

NextCommander ==
    \/ \E c \in Defaults : setDefaults(c)
    \/ \E r \in Registrations : registerCommand(r[1], r[2])
    \/ \E c \in Configs : deregisterCommand(c)
    \/ \E s \in Senders, c \in Configs, a \in DOMAIN CallerArrays : executeConfig(s, c, a)
    \/ \E s \in Senders, d \in Descriptors, a \in DOMAIN CallerArrays : executeDescriptor(s, d, a)
    \/ \E s \in Senders, n \in Names, a \in DOMAIN CallerArrays : executeName(s, n, a)
    \/ \E call \in running, r \in ExecutorResults : finish(call, r)
    \/ \E p \in resolved : onResolved(p)

SpecCommander == InitCommander /\ [][NextCommander]_vars

\* The array references an executor call's ArgumentParser can have.
Refs == (Len(CallerArrays) + 1)..(Len(CallerArrays) + MaxRunning)

\* The scheduler of promises runs the callback of every promise that resolved.
SpecCommanderFair ==
    SpecCommander /\ \A a \in Refs : WF_vars(\E p \in resolved : p.call.args = a /\ onResolved(p))

-----------------------------------------------------------------------------
(* Properties of compile *)

Step(parsers, required) == [parsers |-> parsers, required |-> required]

\* The steps a result was compiled with: steps only grows by appending, and a
\* result has one option per step.
ResultSteps(r) == SubSeq(steps, 1, Len(r.options))

\* The value in the option of step k (0-based) of result r.
Slot(r, k) == cells[r.options[k + 1]]

\* No parser of the step yields a value for the token.
Misses(step, value) == \A i \in 1..Len(step.parsers) : ~Accepts(step.parsers[i], value)

\* The option values of a compile of theSteps against args.
CompiledValues(theSteps, args) ==
    LET c == compileRun(theSteps, <<>>, args)
    IN [i \in 1..Len(c.options) |-> c.cells[c.options[i]]]

IntColorSize == <<Step(<<"int">>, TRUE), Step(<<"color">>, FALSE), Step(<<"size">>, TRUE)>>

\* C1: when an optional step is tried on a token that none of its parsers
\* accepts, its slot stays empty and the next invocation of parseFrom is for
\* the next step with the same token, whose first parser is called on it;
\* [required int, optional color, required size] on ["5", "large"] gives
\* [Some(5), None, Some(large)].
C1_OptionalMissReoffersToken ==
    /\ \A n \in 1..Len(results) :
         LET r == results[n]
             st == ResultSteps(r)
         IN \A i \in 1..Len(r.visits) :
              LET k == r.visits[i][1]
                  t == r.visits[i][2]
              IN (/\ k < Len(st)
                  /\ t < Len(r.args)
                  /\ ~st[k + 1].required
                  /\ Misses(st[k + 1], r.args[t + 1]))
                 => /\ Slot(r, k) = None
                    /\ i < Len(r.visits)
                    /\ r.visits[i + 1] = <<k + 1, t>>
                    /\ (k + 1 < Len(st) /\ st[k + 2].parsers # <<>>)
                       => \E c \in 1..Len(r.calls) :
                            r.calls[c] = <<k + 1, st[k + 2].parsers[1], t>>
    /\ CompiledValues(IntColorSize, <<"5", "large">>)
         = <<<<"int", "5">>, None, <<"size", "large">>>>

\* An optional step missed its token and the next step was filled from it.
C1_Witness ==
    \E n \in 1..Len(results) :
      LET r == results[n]
          st == ResultSteps(r)
      IN \E i \in 1..Len(r.visits) :
           LET k == r.visits[i][1]
               t == r.visits[i][2]
           IN /\ k + 1 < Len(st)
              /\ t < Len(r.args)
              /\ ~st[k + 1].required
              /\ st[k + 1].parsers # <<>>
              /\ Misses(st[k + 1], r.args[t + 1])
              /\ Slot(r, k + 1) # None
              /\ Slot(r, k + 1)[2] = r.args[t + 1]

\* The value the parser calls of result r left in the option of step k.
SlotFromCalls(r, k) ==
    LET at == {c \in 1..Len(r.calls) : r.calls[c][1] = k}
    IN IF at = {}
       THEN None
       ELSE LET final == CHOOSE c \in at : \A d \in at : d <= c
            IN ParserParse(r.calls[final][2], r.args[r.calls[final][3] + 1])

\* C2: when a required step is tried on a token that none of its parsers
\* accepts, parseFrom is not invoked again: the slot of that step and of every
\* later step is empty, the earlier slots hold what their parsers put there,
\* and no parser is called on a later token.
C2_RequiredMissStops ==
    /\ \A n \in 1..Len(results) :
         LET r == results[n]
             st == ResultSteps(r)
         IN \A i \in 1..Len(r.visits) :
              LET k == r.visits[i][1]
                  t == r.visits[i][2]
              IN (/\ k < Len(st)
                  /\ t < Len(r.args)
                  /\ st[k + 1].required
                  /\ Misses(st[k + 1], r.args[t + 1]))
                 => /\ i = Len(r.visits)
                    /\ \A j \in k..(Len(st) - 1) : Slot(r, j) = None
                    /\ \A j \in 0..(k - 1) : Slot(r, j) = SlotFromCalls(r, j)
                    /\ \A c \in 1..Len(r.calls) : r.calls[c][3] <= t
    /\ CompiledValues(IntColorSize, <<"5", "red", "5">>)
         = <<<<"int", "5">>, <<"color", "red">>, None>>
    /\ CompiledValues(<<Step(<<"int">>, TRUE), Step(<<"size">>, TRUE), Step(<<"any">>, FALSE)>>,
                      <<"5", "red", "large">>)
         = <<<<"int", "5">>, None, None>>

\* A required step missed its token after an earlier slot was filled, with a
\* later token left unparsed.
C2_Witness ==
    \E n \in 1..Len(results) :
      LET r == results[n]
          st == ResultSteps(r)
      IN \E i \in 1..Len(r.visits) :
           LET k == r.visits[i][1]
               t == r.visits[i][2]
           IN /\ k < Len(st)
              /\ k > 0
              /\ t < Len(r.args)
              /\ st[k + 1].required
              /\ st[k + 1].parsers # <<>>
              /\ Misses(st[k + 1], r.args[t + 1])
              /\ Slot(r, 0) # None
              /\ Slot(r, k) = None

\* C3: every compile returns one option per step of the descriptor, whatever
\* the arguments, and leaves the steps as they are.
C3_OneSlotPerStep ==
    [][Len(results') > Len(results)
         => /\ Len(results'[Len(results')].options) = Len(steps)
            /\ Len(steps') = Len(steps)]_vars

\* Results with fewer options than arguments, with more options than
\* arguments, and with an empty option.
C3_Witness ==
    /\ Len(results) = 2
    /\ Len(results[1].options) < Len(results[1].args)
    /\ Len(results[2].options) > Len(results[2].args)
    /\ Len(results[2].options) = Len(steps)
    /\ \E k \in 0..(Len(steps) - 1) : Slot(results[2], k) = None

\* C4: when every step is required and argument i is accepted by the first
\* parser of step i, every slot i holds that parser's value for argument i, the
\* parser calls are exactly those, one per step, and the cursors end at
\* (steps.length, steps.length).
C4_AllRequiredAllMatch ==
    /\ \A n \in 1..Len(results) :
         LET r == results[n]
             st == ResultSteps(r)
         IN (\A k \in 0..(Len(st) - 1) :
               /\ st[k + 1].required
               /\ st[k + 1].parsers # <<>>
               /\ k < Len(r.args)
               /\ Accepts(st[k + 1].parsers[1], r.args[k + 1]))
            => /\ \A k \in 0..(Len(st) - 1) :
                    Slot(r, k) = <<st[k + 1].parsers[1], r.args[k + 1]>>
               /\ r.calls = [i \in 1..Len(st) |-> <<i - 1, st[i].parsers[1], i - 1>>]
               /\ r.visits[Len(r.visits)] = <<Len(st), Len(st)>>
    /\ CompiledValues(<<Step(<<"color", "size">>, TRUE), Step(<<"int">>, TRUE),
                        Step(<<"any", "int">>, TRUE)>>, <<"red", "5", "5", "large">>)
         = <<<<"color", "red">>, <<"int", "5">>, <<"any", "5">>>>

\* Two required steps, each filled by its first parser from its own argument.
C4_Witness ==
    \E n \in 1..Len(results) :
      LET r == results[n]
          st == ResultSteps(r)
      IN /\ Len(st) = 2
         /\ Len(r.args) = 2
         /\ \A k \in 0..1 : st[k + 1].required /\ st[k + 1].parsers # <<>>
         /\ Len(st[2].parsers) = 2
         /\ \A k \in 0..1 : Slot(r, k) = <<st[k + 1].parsers[1], r.args[k + 1]>>

\* C5: an invocation of parseFrom with the argument cursor past the last
\* argument, or the step cursor past the last step, is the last one: the slots
\* before the step cursor hold what their parsers put there, and the slot of
\* every step from the step cursor on is empty, required or not, with no parser
\* of it called; [required int, optional color, required size] on ["5"] gives
\* [Some(5), None, None].
C5_OutOfInputStops ==
    /\ \A n \in 1..Len(results) :
         LET r == results[n]
             st == ResultSteps(r)
         IN \A i \in 1..Len(r.visits) :
              LET k == r.visits[i][1]
                  t == r.visits[i][2]
              IN (t >= Len(r.args) \/ k >= Len(st))
                 => /\ i = Len(r.visits)
                    /\ \A j \in 0..(Len(st) - 1) :
                         IF j < k
                         THEN Slot(r, j) = SlotFromCalls(r, j)
                         ELSE /\ Slot(r, j) = None
                              /\ \A c \in 1..Len(r.calls) : r.calls[c][1] # j
    /\ CompiledValues(IntColorSize, <<"5">>) = <<<<"int", "5">>, None, None>>

\* The arguments ran out before a required step, after a slot was filled.
C5_Witness ==
    \E n \in 1..Len(results) :
      LET r == results[n]
          st == ResultSteps(r)
          k == r.visits[Len(r.visits)][1]
          t == r.visits[Len(r.visits)][2]
      IN /\ t = Len(r.args)
         /\ k < Len(st)
         /\ st[k + 1].required
         /\ st[k + 1].parsers # <<>>
         /\ Slot(r, 0) # None
         /\ Slot(r, k) = None

\* The option values of result r.
Values(r) == [i \in 1..Len(r.options) |-> cells[r.options[i]]]

\* The cells of result r.
Cells(r) == {r.options[i] : i \in 1..Len(r.options)}

\* Two results of compiling the same steps against the same arguments hold
\* equal values in cells of their own.
EqualAndApart ==
    \A m, n \in 1..Len(results) :
      (/\ m < n
       /\ results[m].args = results[n].args
       /\ Len(results[m].options) = Len(results[n].options))
      => /\ Values(results[m]) = Values(results[n])
         /\ Cells(results[m]) \cap Cells(results[n]) = {}

\* C6: a compile leaves the steps, the arguments and every cell that existed
\* before it as they were, and returns cells that did not exist before it,
\* one per step; two results of compiling the same steps against the same
\* arguments hold equal values in cells of their own.
C6_CompileTwice ==
    [][/\ Len(results') > Len(results)
          => /\ steps' = steps
             /\ arrays' = arrays
             /\ \A ref \in 1..Len(cells) : cells'[ref] = cells[ref]
             /\ \A ref \in Cells(results'[Len(results')]) : ref > Len(cells)
             /\ Cardinality(Cells(results'[Len(results')])) = Len(steps)
       /\ EqualAndApart']_vars

\* The same steps were compiled twice against the same arguments, and a slot
\* was filled.
C6_Witness ==
    /\ Len(results) = 2
    /\ Len(results[1].options) = Len(results[2].options)
    /\ Len(results[1].options) = 2
    /\ \E k \in 0..1 : Slot(results[1], k) # None /\ Slot(results[2], k) # None

-----------------------------------------------------------------------------
(* Properties of the ArgumentParser *)

FirstMatchOps == {"get", "shift", "shiftIf", "pop", "join"}
CollectAllOps == {"getAny", "shiftAny", "shiftIfAny", "popAny", "joinAny"}

\* The parsers of the last call (1-based) that accept its value.
Hits == IF last.value = undefined
        THEN {}
        ELSE {i \in 1..Len(last.parsers) : Accepts(last.parsers[i], last.value)}

\* C7: a method of the ...Any family returns one Option per parser; only the
\* Option of the first parser that accepts the value is filled, with that
\* parser's value, and the parsers called are those up to it (all of them when
\* none accepts, none of them when there is no value).
C7_CollectAllStopsAtFirst ==
    last.op \in CollectAllOps
    => /\ Len(last.options) = Len(last.parsers)
       /\ Cardinality({i \in 1..Len(last.options) : last.options[i] # None}) <= 1
       /\ \A i \in 1..Len(last.options) :
            IF i \in Hits /\ \A j \in Hits : i <= j
            THEN /\ last.options[i] = <<last.parsers[i], last.value>>
                 /\ last.calls = SubSeq(last.parsers, 1, i)
            ELSE last.options[i] = None
       /\ Hits = {} => last.calls = IF last.value = undefined THEN <<>> ELSE last.parsers

\* A collect-all call filled the Option of a parser and left empty that of a
\* later parser that accepts the value too.
C7_Witness ==
    /\ last.op \in CollectAllOps
    /\ \E i, j \in Hits :
         /\ i < j
         /\ last.options[i] # None
         /\ last.options[j] = None
         /\ Len(last.calls) = i

\* C8: a first-match method returns the value of the first parser, in list
\* order, that accepts the value, having called the parsers up to that one;
\* it returns no value after calling every parser when none accepts (none
\* when the list is empty), and without calling any when there is no value.
C8_FirstMatch ==
    last.op \in FirstMatchOps
    => IF Hits = {}
       THEN /\ last.result = None
            /\ last.calls = IF last.value = undefined THEN <<>> ELSE last.parsers
       ELSE LET i == CHOOSE h \in Hits : \A j \in Hits : h <= j
            IN /\ last.result = <<last.parsers[i], last.value>>
               /\ last.calls = SubSeq(last.parsers, 1, i)

\* A first-match call returned the value of its second parser, with a later
\* parser that accepts the value too.
C8_Witness ==
    /\ last.op \in FirstMatchOps
    /\ \E i, j \in Hits :
         /\ 1 < i
         /\ i < j
         /\ \A h \in Hits : i <= h
         /\ last.result = <<last.parsers[i], last.value>>

-----------------------------------------------------------------------------
(* Properties of the Commander *)

\* The names a registerCommand or deregisterCommand with the config touches.
NamesOf(config) ==
    {config.identifier} \cup {aliasesOf(config)[i] : i \in 1..Len(aliasesOf(config))}

\* C9: executeName and executeConfig return NOT_FOUND, without a call of
\* canExecute or of an executor, when the name is not mapped; NO_PERMISSION,
\* without a call of an executor (and so with nothing for the commandHook to
\* follow), when it is mapped and canExecute is false; and EXECUTED otherwise,
\* with one call of the executor of the descriptor the name is mapped to, on
\* the sender, an ArgumentParser whose array is a new one holding the
\* caller's arguments, and the name.
C9_ExecuteOutcomes ==
    [][returned'.op \in {"executeName", "executeConfig"}
         => LET name == returned'.name
                sender == returned'.sender
                descriptor == MapGet(commands, name)
            IN IF name \notin DOMAIN commands
               THEN /\ returned'.result = NOT_FOUND
                    /\ ~returned'.checked
                    /\ returned'.calls = {}
                    /\ running' = running
               ELSE IF ~canExecute(sender, descriptor)
               THEN /\ returned'.result = NO_PERMISSION
                    /\ returned'.checked
                    /\ returned'.calls = {}
                    /\ running' = running
               ELSE /\ returned'.result = EXECUTED
                    /\ returned'.checked
                    /\ Cardinality(returned'.calls) = 1
                    /\ running' = running \cup returned'.calls
                    /\ \A call \in returned'.calls :
                         /\ call \notin running
                         /\ call.command = descriptor
                         /\ call.executor = descriptor.executor
                         /\ call.sender = sender
                         /\ call.usedAlias = name
                         /\ call.args # returned'.args
                         /\ \A other \in InFlight : call.args # other.args
                         /\ call.args \in DOMAIN arrays => arrays[call.args] = Freed
                         /\ arrays'[call.args] = arrays[returned'.args]
                         /\ arrays'[returned'.args] = arrays[returned'.args]]_vars

\* A guest, under the override of canExecute, was refused a command that is
\* mapped.
C9_Witness ==
    /\ overridden
    /\ returned.op = "executeName"
    /\ returned.name \in DOMAIN commands
    /\ returned.sender = "guest"
    /\ returned.result = NO_PERMISSION
    /\ returned.checked
    /\ returned.calls = {}

\* C10: registerCommand maps the identifier and every alias of the config to
\* one descriptor, holding the config (defaulted) and the executor; a name is
\* mapped differently only by a registerCommand or a deregisterCommand of a
\* config the name is in; and executeName calls the executor of the descriptor
\* its name is mapped to.  So an alias dispatches as the identifier does for as
\* long as no later registerCommand or deregisterCommand touches those names.
C10_AliasDispatchesAsIdentifier ==
    [][/\ returned'.op = "registerCommand"
          => \A n \in NamesOf(returned'.config) :
               /\ n \in DOMAIN commands'
               /\ commands'[n] = commands'[returned'.config.identifier]
               /\ commands'[n].executor = returned'.executor
               /\ commands'[n].config = Defaulted(returned'.config)
       /\ \A n \in Names \cup DOMAIN commands \cup DOMAIN commands' :
            MapGet(commands', n) # MapGet(commands, n)
            => /\ returned'.op \in {"registerCommand", "deregisterCommand"}
               /\ n \in NamesOf(returned'.config)
       /\ returned'.op = "executeName"
          => \A call \in returned'.calls :
               call.command = MapGet(commands, returned'.name)]_vars

\* executeName with the alias "dmg" called the executor of the descriptor that
\* the identifier "hurt" is mapped to.
C10_Witness ==
    /\ returned.op = "executeName"
    /\ returned.name = "dmg"
    /\ returned.result = EXECUTED
    /\ \E call \in returned.calls :
         /\ call.command.config = Hurt
         /\ call.usedAlias = "dmg"
         /\ "hurt" \in DOMAIN commands
         /\ commands["hurt"] = call.command

\* C11: a deregisterCommand of a config whose identifier is mapped leaves
\* neither the identifier nor an alias of the config mapped; a name that is
\* not mapped becomes mapped only by a registerCommand of a config the name is
\* in; and executeName of a name that is not mapped returns NOT_FOUND and
\* calls no executor.
C11_DeregisteredNamesNotFound ==
    [][/\ (returned'.op = "deregisterCommand" /\ returned'.config.identifier \in DOMAIN commands)
          => /\ returned'.result
             /\ \A n \in NamesOf(returned'.config) : n \notin DOMAIN commands'
       /\ \A n \in DOMAIN commands' \ DOMAIN commands :
            /\ returned'.op = "registerCommand"
            /\ n \in NamesOf(returned'.config)
       /\ (returned'.op = "executeName" /\ returned'.name \notin DOMAIN commands)
          => /\ returned'.result = NOT_FOUND
             /\ returned'.calls = {}]_vars

\* deregisterCommand(Hurt) took the identifier "hurt" and the alias "dmg", both
\* mapped before, out of the map.
C11_Witness ==
    /\ returned.op = "deregisterCommand"
    /\ returned.config = Hurt
    /\ returned.result
    /\ "hurt" \notin DOMAIN commands
    /\ "dmg" \notin DOMAIN commands

\* C12: a registerCommand maps every name of its config, mapped before or
\* not, to its own descriptor, and leaves every other name mapped as it was
\* (or not mapped); so after registerCommand calls each name is mapped to the
\* descriptor of the last of them that listed the name.
C12_LastRegistrationWins ==
    [][returned'.op = "registerCommand"
         => \A n \in Names \cup DOMAIN commands \cup DOMAIN commands' :
              IF n \in NamesOf(returned'.config)
              THEN MapGet(commands', n) = [config |-> Defaulted(returned'.config),
                                          executor |-> returned'.executor]
              ELSE MapGet(commands', n) = MapGet(commands, n)]_vars

\* registerCommand(Dmg, ...) took the name "dmg" over, and "hurt", which Dmg
\* does not list, is still mapped to the descriptor of Hurt.
C12_Witness ==
    /\ returned.op = "registerCommand"
    /\ returned.config = Dmg
    /\ "dmg" \in DOMAIN commands
    /\ commands["dmg"].config.identifier = "dmg"
    /\ "hurt" \in DOMAIN commands
    /\ commands["hurt"].config = Hurt

\* The callback of the promise of the executor call whose ArgumentParser holds
\* array a has run, and has called the commandHook, if there is one, once.
HookCalled(a) ==
    /\ returned.op = "onResolved"
    /\ returned.call.args = a
    /\ commandHook => Len(returned.hook) = 1

\* C13: execute returns EXECUTED when it has called the executor, the call
\* not finished and any result of it still to come; when the call finishes
\* without a throw, the promise resolves to false if the executor returned
\* false and to true otherwise; the callback, which runs once the call has
\* finished, calls the commandHook, if there is one, once, with the descriptor,
\* the value of the promise and the executor arguments of the call; and the
\* callback of every promise that resolved is eventually run.
C13_HookFollowsHandler ==
    /\ [][/\ (returned'.op \in {"executeName", "executeConfig", "executeDescriptor"}
              /\ returned'.calls # {})
             => /\ returned'.result = EXECUTED
                /\ returned'.calls \subseteq running'
                /\ \A call \in returned'.calls :
                     /\ call \notin InFlight
                     /\ \A p \in resolved' : p.call # call
          /\ (returned'.op = "finished" /\ returned'.result # "throws")
             => /\ returned'.call \in running
                /\ returned'.call \notin running'
                /\ resolved' = resolved \cup {[call |-> returned'.call,
                                               res |-> returned'.result # "false"]}
                /\ \A p \in resolved : p.call # returned'.call
          /\ returned'.op = "onResolved"
             => /\ [call |-> returned'.call, res |-> returned'.res] \in resolved
                /\ resolved' = resolved \ {[call |-> returned'.call, res |-> returned'.res]}
                /\ returned'.call \notin running
                /\ returned'.hook =
                     IF commandHook
                     THEN <<[command |-> returned'.call.command,
                             commandResult |-> returned'.res,
                             executorArgs |-> <<returned'.call.sender, returned'.call.args,
                                                returned'.call.usedAlias>>]>>
                     ELSE <<>>
          /\ resolved' # resolved
             => returned'.op \in {"finished", "onResolved"}]_vars
    /\ \A a \in Refs : (\E p \in resolved : p.call.args = a) ~> HookCalled(a)

\* The commandHook was called with false for an executor call, made under
\* the name "dmg", that returned false.
C13_Witness ==
    /\ commandHook
    /\ returned.op = "onResolved"
    /\ returned.call.usedAlias = "dmg"
    /\ Len(returned.hook) = 1
    /\ returned.hook[1].commandResult = FALSE
    /\ returned.hook[1].command = returned.call.command

\* C14: an executor call that throws leaves the caller of execute with
\* EXECUTED, and is reported as a call that did not succeed: the promise of
\* runExecutor resolves to false, for the callback to hand to the commandHook.
C14_ThrowReportedAsFailure ==
    [][(returned'.op = "finished" /\ returned'.result = "throws")
         => /\ returned'.promise = [settled |-> "resolved", value |-> FALSE]
            /\ [call |-> returned'.call, res |-> FALSE] \in resolved']_vars

\* C15: when compile reaches a step that thenIf pushed for a condition that is
\* false and required true, the parsing is cancelled: the slot of that step and
\* of every later step is empty.
C15_FalseConditionRequiredCancels ==
    \A n \in 1..Len(results) :
      LET r == results[n]
          st == ResultSteps(r)
      IN \A i \in 1..Len(r.visits) :
           LET k == r.visits[i][1]
           IN (/\ k < Len(st)
               /\ \E p \in ParsersInputs : st[k + 1] = thenIfStep(FALSE, p, TRUE))
              => \A j \in k..(Len(st) - 1) : Slot(r, j) = None

\* C16: popAny parses the last argument of the buffer, and removes it from
\* the buffer only if a parser yields a result; when none does, the buffer is
\* as it was.
C16_PopAnyRemovesOnlyOnResult ==
    [][last'.op = "popAny"
         => /\ last'.value = ArrayGet(Buffer, Len(Buffer) - 1)
            /\ Buffer' = IF \E i \in 1..Len(last'.options) : last'.options[i] # None
                         THEN ArrayPopped(Buffer)
                         ELSE Buffer]_vars

TakeOps == {"shift", "shiftAny", "shiftIf", "shiftIfAny", "pop", "popAny"}

\* C18: the buffer of the ArgumentParser is not the array of default
\* arguments of a descriptor obtained by describe(): a later shift, shiftIf or
\* pop leaves the arguments that compile() of the descriptor uses by default
\* as they were.
C18_DescriptorDefaultsApart ==
    [][(defaultArgs # NoRef /\ last'.op \in TakeOps)
         => arrays'[defaultArgs] = arrays[defaultArgs]]_vars

\* C19: the array handed to the ArgumentParser constructor is not the
\* parser's buffer, and no method of the parser changes it: after any shifts,
\* shiftIfs and pops it holds the same elements in the same order.
C19_CallerArrayUntouched ==
    /\ [](parserArgs # callerArgs)
    /\ [][arrays'[callerArgs] = arrays[callerArgs]]_vars

\* The parser took arguments off its buffer, and the caller's array still
\* holds them.
C19_Witness ==
    /\ last.op \in TakeOps
    /\ Len(arrays[callerArgs]) = 2
    /\ Buffer = <<>>

\* The smaller of two numbers.
Min(a, b) == IF a <= b THEN a ELSE b

\* C20 as stated: in every compile, the invocations of parseFrom made by
\* parseFrom (all but the first, made by compile) are at most
\* min(token count, step count).
C20_DepthAtMostMin ==
    \A n \in 1..Len(results) :
      LET r == results[n]
      IN Len(r.visits) - 1 <= Min(Len(r.args), Len(ResultSteps(r)))

\* C20, amended: every compile terminates, in at most step count + 1
\* invocations of parseFrom: the i-th invocation is for step i (the first one
\* for step 0), on a token not beyond the i-th, and the last one is for a step
\* not beyond the end of the steps.
C20_DepthAtMostSteps ==
    \A n \in 1..Len(results) :
      LET r == results[n]
          st == ResultSteps(r)
      IN /\ 1 <= Len(r.visits)
         /\ Len(r.visits) <= Len(st) + 1
         /\ \A i \in 1..Len(r.visits) :
              /\ r.visits[i][1] = i - 1
              /\ r.visits[i][2] <= Min(i - 1, Len(r.args))

\* A compile of two steps on one token that invoked parseFrom three times:
\* more nested invocations than tokens.
C20_Witness ==
    \E n \in 1..Len(results) :
      LET r == results[n]
      IN /\ Len(r.args) = 1
         /\ Len(ResultSteps(r)) = 2
         /\ Len(r.visits) = 3

\* C21 as stated: deregisterCommand(config) changes only names mapped to the
\* descriptor of that command; a name mapped to the descriptor of another
\* command before the call is mapped to it after the call.
C21_DeregisterKeepsOtherCommands ==
    [][returned'.op = "deregisterCommand"
         => \A n \in DOMAIN commands :
              commands[n].config.identifier # returned'.config.identifier
              => /\ n \in DOMAIN commands'
                 /\ commands'[n] = commands[n]]_vars

\* C21, amended: deregisterCommand(config), when the identifier of the config
\* is mapped, deletes the identifier and every alias the config lists,
\* whatever descriptor each is mapped to, leaves every other name mapped as it
\* was and returns true; when the identifier is not mapped, it changes nothing
\* and returns false.
C21_DeregisterDeletesListedNames ==
    [][returned'.op = "deregisterCommand"
         => IF returned'.config.identifier \in DOMAIN commands
            THEN /\ returned'.result
                 /\ DOMAIN commands' = DOMAIN commands \ NamesOf(returned'.config)
                 /\ \A n \in DOMAIN commands' : commands'[n] = commands[n]
            ELSE /\ ~returned'.result
                 /\ commands' = commands]_vars

\* deregisterCommand(Dmg) deleted the name "dmg" and left "hurt" mapped to the
\* descriptor of Hurt, which lists "dmg" as an alias.
C21_Witness ==
    /\ returned.op = "deregisterCommand"
    /\ returned.config = Dmg
    /\ returned.result
    /\ "dmg" \notin DOMAIN commands
    /\ "hurt" \in DOMAIN commands
    /\ commands["hurt"].config = Hurt

\* The steps (0-based) of result r whose slot is filled.
Filled(r) == {k \in 0..(Len(r.options) - 1) : Slot(r, k) # None}

\* C22: in every compile result, the j-th filled slot in step order (from 0)
\* holds the value its parser yields for token j, and was filled by a parser
\* call on token j; the token cursor never exceeds the step cursor; the filled
\* slots are at most min(token count, step count); and the tokens beyond the
\* last one consumed do not matter to the filled slots: compiling the same
\* steps without them, or with another token after the consumed ones, fills
\* the same slots with the same values up to the last filled slot.
C22_TokensInOrder ==
    \A n \in 1..Len(results) :
      LET r == results[n]
          st == ResultSteps(r)
          consumed == Cardinality(Filled(r))
      IN /\ \A k \in Filled(r) :
              LET j == Cardinality({f \in Filled(r) : f < k})
              IN /\ j < Len(r.args)
                 /\ Slot(r, k)[2] = r.args[j + 1]
                 /\ Slot(r, k) = SlotFromCalls(r, k)
                 /\ \A c \in 1..Len(r.calls) : r.calls[c][1] = k => r.calls[c][3] = j
         /\ \A i \in 1..Len(r.visits) : r.visits[i][2] <= r.visits[i][1]
         /\ \A c \in 1..Len(r.calls) : r.calls[c][3] <= r.calls[c][1]
         /\ consumed <= Min(Len(r.args), Len(st))
         /\ \A tail \in {<<>>} \cup {<<x>> : x \in Tokens} :
              LET other == CompiledValues(st, SubSeq(r.args, 1, consumed) \o tail)
              IN \A k \in 0..(Len(st) - 1) :
                   (\E f \in Filled(r) : k <= f) => other[k + 1] = Slot(r, k)

\* A result of two steps on two tokens whose first slot is empty and whose
\* second slot holds the first token, the second token not consumed.
C22_Witness ==
    \E n \in 1..Len(results) :
      LET r == results[n]
      IN /\ Len(r.args) = 2
         /\ Len(r.options) = 2
         /\ Filled(r) = {1}
         /\ Slot(r, 1)[2] = r.args[1]
         /\ r.args[2] # r.args[1]

=============================================================================
